---- MODULE Spec2Model ----
(***************************************************************************)
(* A model of conda_smithy/run_local_build.py: the local runner of the     *)
(* linux build matrix of a feedstock (run_linux_local and its helpers).    *)
(*                                                                         *)
(* One behaviour of Spec is one call of run_linux_local.  The coordinating *)
(* thread is the program counter pc; the threads of the                    *)
(* multiprocessing.dummy pool are the workers recorded in tasks.           *)
(***************************************************************************)
EXTENDS Integers, Sequences, FiniteSets, Bags, TLC

\* ---------------------------------------------------------------- bounds

\* Largest number of jobs a .circleci/config.yml of the model declares.
MaxJobs == 3

\* Largest n_threads of the model.
MaxThreads == 2

\* Largest number of elements of the filter "only" in the filter model.
MaxOnly == 2

\* ------------------------------------------------------- strings and order

\* The strings the model compares with sorted(), in Python's str order.
StrOrder ==
    << "0", "1", "condaforge/linux-anvil", "docker", "linux_32", "linux_64",
       "linux_ppc", "nvidia-docker" >>

Rank(s) == CHOOSE i \in 1..Len(StrOrder) : StrOrder[i] = s

\* The job names a configuration may declare.
JobNames == { "0", "1", "linux_32", "linux_64", "linux_ppc" }

Digits == << "0", "1", "2", "3", "4", "5", "6", "7", "8", "9" >>

\* str(i) of a non-negative int.
RECURSIVE Str(_)
Str(i) == IF i < 10 THEN Digits[i + 1] ELSE Str(i \div 10) \o Digits[(i % 10) + 1]

Range(s) == { s[i] : i \in 1..Len(s) }

\* ------------------------------------------------------------- file system

\* What a path is: absent and creatable, absent and not creatable (a parent
\* is a file or is read-only), a regular file, a read-only directory, a
\* writable directory.
PathStates == { "absent", "blocked", "file", "dir_ro", "dir" }

\* op.exists / op.isdir / os.access(path, os.W_OK)
Exists(p) == p \in { "file", "dir_ro", "dir" }
IsDir(p) == p \in { "dir_ro", "dir" }
Writable(p) == p = "dir"

\* (A check_path that did not look at the permissions.)
CheckPathIsDirOnly(p) == ~IsDir(p)

\* check_path: raises unless the path is a writable directory.
CheckPathRaises(p) == ~IsDir(p) \/ ~Writable(p)

\* os.makedirs on a path that does not exist.
Makedirs(p) == IF p = "absent" THEN "dir" ELSE p
MakedirsRaises(p) == p # "absent"

\* _ensure_writable_dir, run without interference: the path afterwards and
\* whether the call raises.
EnsureWritableDir(p) ==
    IF Exists(p)
    THEN [ path |-> p, raises |-> CheckPathRaises(p) ]
    ELSE IF ~MakedirsRaises(p)
         THEN [ path |-> Makedirs(p), raises |-> FALSE ]
         ELSE [ path |-> p,
                raises |-> IF Exists(p) THEN CheckPathRaises(p) ELSE TRUE ]

\* ------------------------------------------------------------ job extraction

DefaultDocker == [ executable |-> "docker", image |-> "condaforge/linux-anvil" ]

\* conda-forge.yml as read by _collect_docker_info: no file, or the keys of
\* its docker section.
NoFile == [ file |-> FALSE, docker |-> << >> ]
SettingsChoices ==
    { NoFile,
      [ file |-> TRUE, docker |-> << >> ],
      [ file |-> TRUE, docker |-> << <<"executable", "nvidia-docker">> >> ] }

\* dict.get(key, default) on a mapping given as a sequence of <<key, value>>.
Get(m, k, default) ==
    IF \E i \in 1..Len(m) : m[i][1] = k
    THEN m[CHOOSE i \in 1..Len(m) : m[i][1] = k][2]
    ELSE default

CollectDockerInfo(settings) ==
    IF settings.file
    THEN << Get(settings.docker, "executable", DefaultDocker.executable),
            Get(settings.docker, "image", DefaultDocker.image) >>
    ELSE << DefaultDocker.executable, DefaultDocker.image >>

\* The environment a configuration declares for a job: a sequence of
\* single-key mappings.
EnvOf(n) ==
    IF n = "linux_64" THEN << ("PY" :> "38") >>
    ELSE IF n = "linux_32" THEN << ("PY" :> "27"), ("PY" :> "36") >>
    ELSE << >>

ConfigEntry(n) == [ name |-> n, environment |-> EnvOf(n) ]

\* dict.popitem on a single-key mapping.
PopItem(m) == LET k == CHOOSE k \in DOMAIN m : TRUE IN << k, m[k] >>

LinuxJob(entry, dk) ==
    [ recipe_root |-> ".",
      name |-> entry.name,
      envvars |-> [ i \in 1..Len(entry.environment) |-> PopItem(entry.environment[i]) ],
      docker_executable |-> dk[1],
      docker_image |-> dk[2] ]

\* sorted(items, reverse=True) on the (job_name, jobconfig) items.
RECURSIVE SortedReverse(_)
SortedReverse(S) ==
    IF S = {} THEN << >>
    ELSE LET top == CHOOSE e \in S : \A f \in S : Rank(f.name) <= Rank(e.name)
         IN << top >> \o SortedReverse(S \ { top })

\* _collect_linux_jobs: one descriptor per declared job.
CollectLinuxJobs(cfg, dk) ==
    LET items == SortedReverse(Range(cfg))
    IN [ i \in 1..Len(items) |-> LinuxJob(items[i], dk) ]

\* ------------------------------------------------------------------ filter

\* The filter "only": the strings and the ints it holds.
EmptyOnly == [ strs |-> {}, ints |-> {} ]

\* bool(only)
Truthy(o) == o.strs # {} \/ o.ints # {}

\* (A filter that forgot the int positions, and one that counted the
\* positions from 1.)
KeepNoInt(job, i, o) == job.name \in o.strs \/ Str(i) \in o.strs
KeepFromOne(job, i, o) ==
    job.name \in o.strs \/ Str(i + 1) \in o.strs \/ (i + 1) \in o.ints

\* job.name in only or str(i) in only or i in only
Keep(job, i, o) == job.name \in o.strs \/ Str(i) \in o.strs \/ i \in o.ints

\* [job for i, job in enumerate(jobs) if ...]
RECURSIVE FilterFrom(_, _, _)
FilterFrom(js, o, i) ==
    IF i >= Len(js) THEN << >>
    ELSE (IF Keep(js[i + 1], i, o) THEN << js[i + 1] >> ELSE << >>)
         \o FilterFrom(js, o, i + 1)

FilterJobs(js, o) == IF Truthy(o) THEN FilterFrom(js, o, 0) ELSE js

\* ------------------------------------------------------------------- pulls

PairLess(a, b) ==
    \/ Rank(a[1]) < Rank(b[1])
    \/ a[1] = b[1] /\ Rank(a[2]) < Rank(b[2])

RECURSIVE SortedPairs(_)
SortedPairs(S) ==
    IF S = {} THEN << >>
    ELSE LET least == CHOOSE a \in S : \A b \in S \ { a } : PairLess(a, b)
         IN << least >> \o SortedPairs(S \ { least })

\* (A pull list without the set(): one pair per job.)
ImagesPerJob(js) ==
    [ i \in 1..Len(js) |-> << js[i].docker_executable, js[i].docker_image >> ]

\* sorted(set((job.docker_executable, job.docker_image) for job in jobs))
Images(js) ==
    SortedPairs({ << js[i].docker_executable, js[i].docker_image >> : i \in 1..Len(js) })

\* ------------------------------------------------------------------ inputs

\* Exit codes of an external process.
ExitCodes == { 0, 1 }

\* All configurations: up to MaxJobs distinct job names in any declared order.
RECURSIVE SeqsOver(_, _)
SeqsOver(S, n) ==
    IF n = 0 THEN { << >> }
    ELSE LET shorter == SeqsOver(S, n - 1)
         IN shorter \cup { Append(s, x) : s \in { t \in shorter : Len(t) = n - 1 },
                                          x \in S }

Distinct(s) == \A i, j \in 1..Len(s) : i # j => s[i] # s[j]

AllConfigs ==
    { [ i \in 1..Len(s) |-> ConfigEntry(s[i]) ] :
        s \in { t \in SeqsOver(JobNames, MaxJobs) : Distinct(t) } }

\* The configurations of a whole run: the first k of these names, declared
\* in this order.
RunNames == << "linux_32", "linux_64", "linux_ppc", "0", "1" >>
RunConfigs ==
    { [ i \in 1..k |-> ConfigEntry(RunNames[i]) ] : k \in 0..MaxJobs }

\* All filters of at most MaxOnly elements over the job names, the decimal
\* strings of the positions, and the positions.
OnlyStrs == JobNames \cup { Str(i) : i \in 0..(MaxJobs - 1) }
OnlyInts == 0..(MaxJobs - 1)
AllOnly ==
    { o \in [ strs : SUBSET OnlyStrs, ints : SUBSET OnlyInts ] :
        Cardinality(o.strs) + Cardinality(o.ints) <= MaxOnly }

\* The filters of a whole run: none, the first position, a name no job has.
RunOnly ==
    { EmptyOnly, [ strs |-> {}, ints |-> { 0 } ], [ strs |-> { "osx_64" }, ints |-> {} ] }

\* The file system before a run: the artefact root build_artefacts, its
\* src_cache, and the log directory build_artefacts/build_logs/linux.
FsChoices ==
    { [ artefacts |-> "absent", src_cache |-> "absent", logs |-> "absent" ] }
    \cup { [ artefacts |-> a, src_cache |-> "absent", logs |-> "blocked" ] :
             a \in { "blocked", "file" } }
    \cup { [ artefacts |-> "dir_ro", src_cache |-> "dir", logs |-> "blocked" ] }
    \cup { [ artefacts |-> "dir", src_cache |-> c, logs |-> l ] :
             c \in { "absent", "dir" }, l \in PathStates }

\* ------------------------------------------------------ external commands

\* A launched command: what it is (cmd: "rerender", "pull", "build"), its
\* executable, what it is run on (the recipe, the image, the job whose
\* environment it gets), and what became of it: st is "running", "exited"
\* (with its exit code rc) or "OSError" (it could not be launched).
Launched(cmd, exe, arg) == [ cmd |-> cmd, exe |-> exe, arg |-> arg, st |-> "running" ]
Exited(c, rc) == [ cmd |-> c.cmd, exe |-> c.exe, arg |-> c.arg, st |-> "exited", rc |-> rc ]
NotLaunched(cmd, exe, arg) == [ cmd |-> cmd, exe |-> exe, arg |-> arg, st |-> "OSError" ]

\* What a call of run_linux_local has handed to its caller: nothing yet, a
\* list, or None.
Pending == [ type |-> "pending" ]
PyList(l) == [ type |-> "list", items |-> l ]
PyNone == [ type |-> "NoneType" ]

\* A printed line of plain text.
Text(t) == [ line |-> t ]

\* (A check_call that let every exit code pass.)
CheckCallNeverRaises(rc) == FALSE

\* check_call raises CalledProcessError on a non-zero exit code.
CheckCallRaises(rc) == rc # 0

\* ------------------------------------------------------------------- state

VARIABLES
    pc,               \* where the coordinating thread is in run_linux_local
    error,            \* the call that raised out of run_linux_local, or "none"
    ret,              \* what run_linux_local returned
    no_rerender, no_docker_pull, n_threads, safe, only,   \* the arguments
    circleci_config,  \* the jobs .circleci/config.yml declares, as read
    jobs,             \* the local jobs
    images,           \* the (executable, image) pairs still to pull
    fs,               \* the file system under recipe_root
    results,          \* the local results
    warmup,           \* the job the coordinating thread is running, if any
    tasks,            \* the pool's tasks, one per job handed to map
    now,              \* the clock datetime.now() reads
    calls,            \* the external commands launched so far, in launch order,
                      \* each with what became of it
    opened,           \* the log files opened for writing, each with its count
    out,              \* what the coordinating thread printed, in order
    pool_out,         \* what the pool's threads printed
    target,           \* the path given to concurrent _ensure_writable_dir calls
    callers,          \* the threads inside _ensure_writable_dir, each with its place
    environ,          \* os.environ
    job_env           \* the env local of one _run_one_linux_job, with its loop

vars ==
    << pc, error, ret, no_rerender, no_docker_pull, n_threads, safe, only,
       circleci_config, jobs, images, fs, results, warmup, tasks, now, calls,
       opened, out, pool_out, target, callers, environ, job_env >>

\* The state of one call of run_linux_local.
run ==
    << pc, error, ret, no_rerender, no_docker_pull, n_threads, safe, only,
       circleci_config, jobs, images, fs, results, warmup, tasks, now, calls,
       opened, out, pool_out >>

\* The state of the functions that are also followed on their own.
helpers == << target, callers, environ, job_env >>

args == << no_rerender, no_docker_pull, n_threads, safe, only >>

InitLocals ==
    /\ pc = "rerender"
    /\ error = "none"
    /\ ret = Pending
    /\ circleci_config = << >>
    /\ jobs = << >>
    /\ images = << >>
    /\ results = << >>
    /\ warmup = [ st |-> "none" ]
    /\ tasks = << >>
    /\ now = 0
    /\ calls = << >>
    /\ opened = EmptyBag
    /\ out = << >>
    /\ pool_out = EmptyBag

\* No function is followed on its own.
HelpersIdle ==
    /\ target = [ was |-> "dir", is |-> "dir" ]
    /\ callers = << >>
    /\ environ = << >>
    /\ job_env = [ pc |-> "idle" ]

Init ==
    /\ HelpersIdle
    /\ InitLocals
    /\ no_rerender \in BOOLEAN
    /\ no_docker_pull \in BOOLEAN
    /\ n_threads \in 1..MaxThreads
    /\ safe \in BOOLEAN
    /\ only \in RunOnly
    /\ fs \in FsChoices

\* The coordinating thread raises out of run_linux_local.
Raise(what) ==
    /\ pc' = "raised"
    /\ error' = what

\* ---------------------------------------------------------------- rerender

\* if not no_rerender: check_call(['conda-smithy', 'rerender', ...]), with
\* OSError caught.
RerenderSkip ==
    /\ pc = "rerender"
    /\ no_rerender
    /\ pc' = "collect"
    /\ UNCHANGED << error, ret, args, helpers, circleci_config, jobs, images, fs, results,
                    warmup, tasks, now, calls, opened, out, pool_out >>

\* (A re-render whose except clause caught every failure of the command.)
RerenderBareExcept ==
    /\ pc = "rerender"
    /\ ~no_rerender
    /\ \/ \E rc \in ExitCodes :
            /\ calls' = Append(calls, Exited(Launched("rerender", "conda-smithy", "."), rc))
            /\ out' = IF rc # 0
                      THEN Append(out, Text("WARNING: could not rerender the recipe, is \"conda-smithy\" available?"))
                      ELSE out
       \/ /\ calls' = Append(calls, NotLaunched("rerender", "conda-smithy", "."))
          /\ out' = Append(out, Text("WARNING: could not rerender the recipe, is \"conda-smithy\" available?"))
    /\ pc' = "collect"
    /\ UNCHANGED << error, ret, args, helpers, circleci_config, jobs, images, fs, results,
                    warmup, tasks, now, opened, pool_out >>

Rerender ==
    /\ pc = "rerender"
    /\ ~no_rerender
    /\ \/ \E rc \in ExitCodes :
            /\ calls' = Append(calls, Exited(Launched("rerender", "conda-smithy", "."), rc))
            /\ IF CheckCallRaises(rc)
               THEN Raise("rerender")
               ELSE pc' = "collect" /\ UNCHANGED error
            /\ UNCHANGED out
       \/ /\ calls' = Append(calls, NotLaunched("rerender", "conda-smithy", "."))
          /\ out' = Append(out, Text("WARNING: could not rerender the recipe, is \"conda-smithy\" available?"))
          /\ pc' = "collect"
          /\ UNCHANGED error
    /\ UNCHANGED << ret, args, helpers, circleci_config, jobs, images, fs, results,
                    warmup, tasks, now, opened, pool_out >>

\* ----------------------------------------------------------------- collect

\* jobs = _collect_linux_jobs(recipe_root): reads conda-forge.yml and
\* .circleci/config.yml.
Collect(configs) ==
    /\ pc = "collect"
    /\ \E settings \in SettingsChoices, cfg \in configs :
        /\ circleci_config' = cfg
        /\ jobs' = CollectLinuxJobs(cfg, CollectDockerInfo(settings))
    /\ pc' = "filter"
    /\ UNCHANGED << error, ret, args, helpers, images, fs, results, warmup, tasks, now,
                    calls, opened, out, pool_out >>

\* open() of .circleci/config.yml raises.
CollectRaises ==
    /\ pc = "collect"
    /\ Raise("collect")
    /\ UNCHANGED << ret, args, helpers, circleci_config, jobs, images, fs, results,
                    warmup, tasks, now, calls, opened, out, pool_out >>

\* ------------------------------------------------------------------ filter

\* if only: jobs = [...]
Filter ==
    /\ pc = "filter"
    /\ jobs' = FilterJobs(jobs, only)
    /\ pc' = "anything"
    /\ UNCHANGED << error, ret, args, helpers, circleci_config, images, fs, results,
                    warmup, tasks, now, calls, opened, out, pool_out >>

\* if not jobs: print('No jobs, exiting'); return []
NoJobs ==
    /\ pc = "anything"
    /\ jobs = << >>
    /\ out' = Append(out, Text("No jobs, exiting"))
    /\ ret' = PyList(<< >>)
    /\ pc' = "returned"
    /\ UNCHANGED << error, args, helpers, circleci_config, jobs, images, fs, results,
                    warmup, tasks, now, calls, opened, pool_out >>

\* if not no_docker_pull: images = sorted(set(...)); nothing to pull otherwise.
PullList(js, skip) == IF skip THEN << >> ELSE Images(js)

\* (A run that went on without the test for an empty job list.)
WillBuildUnguarded ==
    /\ pc = "anything"
    /\ out' = Append(out, Text("Will build:"))
    /\ images' = PullList(jobs, no_docker_pull)
    /\ pc' = "pull"
    /\ UNCHANGED << error, ret, args, helpers, circleci_config, jobs, fs, results,
                    warmup, tasks, now, calls, opened, pool_out >>

\* print('Will build:') ...; on to the pulls.
WillBuild ==
    /\ pc = "anything"
    /\ jobs # << >>
    /\ out' = Append(out, Text("Will build:"))
    /\ images' = PullList(jobs, no_docker_pull)
    /\ pc' = "pull"
    /\ UNCHANGED << error, ret, args, helpers, circleci_config, jobs, fs, results,
                    warmup, tasks, now, calls, opened, pool_out >>

\* ------------------------------------------------------------------- pulls

\* for docker_executable, docker_image in images: check_call([..., 'pull', ...])
\* The command is launched ...
PullStart ==
    /\ pc = "pull"
    /\ images # << >>
    /\ calls' = Append(calls, Launched("pull", images[1][1], images[1][2]))
    /\ pc' = "pulling"
    /\ UNCHANGED << error, ret, args, helpers, circleci_config, jobs, images, fs, results,
                    warmup, tasks, now, opened, out, pool_out >>

\* ... or cannot be launched (OSError) ...
PullLaunchFails ==
    /\ pc = "pull"
    /\ images # << >>
    /\ calls' = Append(calls, NotLaunched("pull", images[1][1], images[1][2]))
    /\ Raise("pull_launch")
    /\ UNCHANGED << ret, args, helpers, circleci_config, jobs, images, fs, results,
                    warmup, tasks, now, opened, out, pool_out >>

\* ... and check_call raises on a non-zero exit code.
PullExit ==
    /\ pc = "pulling"
    /\ \E rc \in ExitCodes :
        /\ calls' = [ calls EXCEPT ![Len(calls)] = Exited(@, rc) ]
        /\ IF CheckCallRaises(rc)
           THEN /\ Raise("pull")
                /\ UNCHANGED images
           ELSE /\ images' = Tail(images)
                /\ pc' = "pull"
                /\ UNCHANGED error
    /\ UNCHANGED << ret, args, helpers, circleci_config, jobs, fs, results,
                    warmup, tasks, now, opened, out, pool_out >>

\* ---------------------------------------------------------- artefact root

\* artefacts_dir = _ensure_writable_dir(recipe_root, 'build_artefacts');
\* results = []
EnsureArtefacts ==
    /\ pc = "pull"
    /\ images = << >>
    /\ LET d == EnsureWritableDir(fs.artefacts)
       IN /\ fs' = [ fs EXCEPT !.artefacts = d.path ]
          /\ IF d.raises
             THEN Raise("artefacts_dir") /\ UNCHANGED results
             ELSE pc' = "warmup" /\ results' = << >> /\ UNCHANGED error
    /\ UNCHANGED << ret, args, helpers, circleci_config, jobs, images,
                    warmup, tasks, now, calls, opened, out, pool_out >>

\* ------------------------------------------------------------ one job

\* (A log file named after the job alone.)
LogFileNoTimestamp(job, t) ==
    [ dir |-> "build_artefacts/build_logs/linux", name |-> job.name, timestamp |-> 0 ]

\* op.join(logs_dir, job.name + '.' + timestamp)
LogFile(job, t) ==
    [ dir |-> "build_artefacts/build_logs/linux", name |-> job.name, timestamp |-> t ]

\* 'JOB %s %s' % (job.name, 'FAIL' if retcode else 'OK')
StatusLine(job, retcode) ==
    [ line |-> "JOB", name |-> job.name, status |-> IF retcode # 0 THEN "FAIL" ELSE "OK" ]

\* return job, retcode, log_file
JobResult(job, retcode, log_file) ==
    [ job |-> job, retcode |-> retcode, log_file |-> log_file ]

\* (A check_call in the place of the call.)
CallRaisesOnFailure(retcode) == retcode # 0

\* call() returns the exit code of the build script, whatever it is.
CallRaises(retcode) == FALSE

BuildScript == "./ci_support/run_docker_build.sh"

\* The first half of _run_one_linux_job, up to the launch of the build
\* script: the log directory is ensured, the log file is opened, the script
\* is launched or fails to launch.  Each outcome says whether the job is now
\* running, what was raised if it is not, and the log directory afterwards.
StartOutcomes(job) ==
    LET d == EnsureWritableDir(fs.logs)
        log_file == LogFile(job, now)
    IN IF d.raises
       THEN { [ started |-> FALSE, raised |-> "logs_dir", logs |-> d.path,
                opened |-> FALSE, log_file |-> log_file ] }
       ELSE { [ started |-> TRUE, raised |-> "none", logs |-> d.path,
                opened |-> TRUE, log_file |-> log_file ],
              [ started |-> FALSE, raised |-> "launch", logs |-> d.path,
                opened |-> TRUE, log_file |-> log_file ] }

\* The effects of that first half on the file system and the call log.
StartEffects(job, o) ==
    /\ fs' = [ fs EXCEPT !.logs = o.logs ]
    /\ opened' = IF o.opened THEN opened (+) SetToBag({ o.log_file }) ELSE opened
    /\ calls' = IF o.started THEN Append(calls, Launched("build", BuildScript, job.name))
                ELSE IF o.opened THEN Append(calls, NotLaunched("build", BuildScript, job.name))
                ELSE calls

\* ----------------------------------------------------------------- warm-up

\* (A warm-up that looked at safe alone.)
WarmupNeededSafeOnly == safe

\* if safe or not op.isdir(op.join(artefacts_dir, 'src_cache')):
WarmupNeeded == safe \/ ~IsDir(fs.src_cache)

WarmupSkip ==
    /\ pc = "warmup"
    /\ ~WarmupNeeded
    /\ pc' = "pool"
    /\ UNCHANGED << error, ret, args, helpers, circleci_config, jobs, images, fs, results,
                    warmup, tasks, now, calls, opened, out, pool_out >>

\* results.append(_run_one_linux_job(jobs[0])): the job starts ...
WarmupStart ==
    /\ pc = "warmup"
    /\ WarmupNeeded
    /\ \E o \in StartOutcomes(jobs[1]) :
        /\ o.started
        /\ StartEffects(jobs[1], o)
        /\ warmup' = [ st |-> "running", call |-> Len(calls) + 1, log_file |-> o.log_file ]
    /\ pc' = "warming"
    /\ UNCHANGED << error, ret, args, helpers, circleci_config, jobs, images, results,
                    tasks, now, out, pool_out >>

\* ... or raises before its build script runs ...
WarmupRaises ==
    /\ pc = "warmup"
    /\ WarmupNeeded
    /\ \E o \in StartOutcomes(jobs[1]) :
        /\ ~o.started
        /\ StartEffects(jobs[1], o)
        /\ Raise(o.raised)
    /\ UNCHANGED << ret, args, helpers, circleci_config, jobs, images, results,
                    warmup, tasks, now, out, pool_out >>

\* ... and its build script exits.
WarmupFinish ==
    /\ pc = "warming"
    /\ \E retcode \in ExitCodes :
        /\ calls' = [ calls EXCEPT ![warmup.call] = Exited(@, retcode) ]
        /\ now' = now + 1
        /\ IF CallRaises(retcode)
           THEN /\ Raise("build_exit")
                /\ warmup' = [ st |-> "raised" ]
                /\ UNCHANGED << results, out >>
           ELSE /\ out' = Append(out, StatusLine(jobs[1], retcode))
                /\ results' = Append(results, JobResult(jobs[1], retcode, warmup.log_file))
                /\ warmup' = [ warmup EXCEPT !.st = "done" ]
                /\ pc' = "pool"
                /\ UNCHANGED error
    /\ UNCHANGED << ret, args, helpers, circleci_config, jobs, images, fs,
                    tasks, opened, pool_out >>

\* -------------------------------------------------------------------- pool

\* multiprocessing.dummy.Pool(n_threads).map(_run_one_linux_job, jobs): one
\* task per job is queued.  (map hands the jobs out in chunks of
\* ceil(len(jobs) / (4 * n_threads)) jobs, that is one job per task up to
\* 4 * n_threads jobs; a chunk of several jobs runs them one after another on
\* one thread, which is one of the orders the tasks below can take.)
PoolMap ==
    /\ pc = "pool"
    /\ tasks' = [ j \in 1..Len(jobs) |-> [ st |-> "queued" ] ]
    /\ pc' = "map"
    /\ UNCHANGED << error, ret, args, helpers, circleci_config, jobs, images, fs, results,
                    warmup, now, calls, opened, out, pool_out >>

\* The pool's threads.
Workers == 1..n_threads

\* (A pool that handed a task to a thread that is running one.)
WorkerFreeAlways(w) == TRUE

\* A thread of the pool takes a task only when it runs none.
WorkerFree(w) == \A j \in 1..Len(tasks) : tasks[j].st = "running" => tasks[j].w # w

\* The task queue is first in, first out.
NextTask(j) ==
    /\ j \in 1..Len(tasks)
    /\ tasks[j].st = "queued"
    /\ \A i \in 1..(j - 1) : tasks[i].st # "queued"

\* (A map that lost the exception of a task and kept waiting.)
MapSwallows(what) == UNCHANGED << pc, error >>

\* map raises in the coordinating thread as soon as one task has raised.
MapRaises(what) ==
    IF pc = "map" THEN Raise(what) ELSE UNCHANGED << pc, error >>

\* A free thread takes the next task and starts its job ...
PoolJobStart(w) ==
    /\ w \in Workers
    /\ WorkerFree(w)
    /\ \E j \in 1..Len(tasks) :
        /\ NextTask(j)
        /\ \E o \in StartOutcomes(jobs[j]) :
            /\ o.started
            /\ StartEffects(jobs[j], o)
            /\ tasks' = [ tasks EXCEPT ![j] =
                            [ st |-> "running", w |-> w, call |-> Len(calls) + 1,
                              log_file |-> o.log_file ] ]
    /\ UNCHANGED << pc, error, ret, args, helpers, circleci_config, jobs, images, results,
                    warmup, now, out, pool_out >>

\* ... or the job raises before its build script runs ...
PoolJobRaises(w) ==
    /\ w \in Workers
    /\ WorkerFree(w)
    /\ \E j \in 1..Len(tasks) :
        /\ NextTask(j)
        /\ \E o \in StartOutcomes(jobs[j]) :
            /\ ~o.started
            /\ StartEffects(jobs[j], o)
            /\ tasks' = [ tasks EXCEPT ![j] = [ st |-> "raised" ] ]
            /\ MapRaises(o.raised)
    /\ UNCHANGED << ret, args, helpers, circleci_config, jobs, images, results,
                    warmup, now, out, pool_out >>

\* ... and the build script of a running job exits.
PoolJobFinish(j) ==
    /\ j \in 1..Len(tasks)
    /\ tasks[j].st = "running"
    /\ \E retcode \in ExitCodes :
        /\ calls' = [ calls EXCEPT ![tasks[j].call] = Exited(@, retcode) ]
        /\ now' = now + 1
        /\ IF CallRaises(retcode)
           THEN /\ tasks' = [ tasks EXCEPT ![j] = [ st |-> "raised" ] ]
                /\ MapRaises("build_exit")
                /\ UNCHANGED pool_out
           ELSE /\ pool_out' = pool_out (+) SetToBag({ StatusLine(jobs[j], retcode) })
                /\ tasks' = [ tasks EXCEPT ![j] =
                                [ st |-> "done", call |-> tasks[j].call,
                                  result |-> JobResult(jobs[j], retcode, tasks[j].log_file) ] ]
                /\ UNCHANGED << pc, error >>
    /\ UNCHANGED << ret, args, helpers, circleci_config, jobs, images, fs, results,
                    warmup, opened, out >>

\* (results = ... in the place of results += ...)
MapReturnAssigns ==
    /\ pc = "map"
    /\ \A j \in 1..Len(tasks) : tasks[j].st = "done"
    /\ results' = [ j \in 1..Len(tasks) |-> tasks[j].result ]
    /\ pc' = "report"
    /\ UNCHANGED << error, ret, args, helpers, circleci_config, jobs, images, fs,
                    warmup, tasks, now, calls, opened, out, pool_out >>

\* (A map that handed the results back in the order the jobs completed,
\* which may be any order.)
MapReturnUnordered ==
    /\ pc = "map"
    /\ \A j \in 1..Len(tasks) : tasks[j].st = "done"
    /\ \E p \in [ 1..Len(tasks) -> 1..Len(tasks) ] :
        /\ \A i, k \in 1..Len(tasks) : p[i] = p[k] => i = k
        /\ results' = results \o [ j \in 1..Len(tasks) |-> tasks[p[j]].result ]
    /\ pc' = "report"
    /\ UNCHANGED << error, ret, args, helpers, circleci_config, jobs, images, fs,
                    warmup, tasks, now, calls, opened, out, pool_out >>

\* map returns the results in the order of the jobs.
MapReturn ==
    /\ pc = "map"
    /\ \A j \in 1..Len(tasks) : tasks[j].st = "done"
    /\ results' = results \o [ j \in 1..Len(tasks) |-> tasks[j].result ]
    /\ pc' = "report"
    /\ UNCHANGED << error, ret, args, helpers, circleci_config, jobs, images, fs,
                    warmup, tasks, now, calls, opened, out, pool_out >>

\* ------------------------------------------------------------------ report

\* print(job.name, retcode if retcode else 'OK', logfile)
SummaryRow(r) ==
    [ line |-> "summary", name |-> r.job.name,
      retcode |-> IF r.retcode # 0 THEN Str(r.retcode) ELSE "OK",
      logfile |-> r.log_file ]

\* for job, retcode, logfile in results: print(...); print('Done'); the
\* function ends without a return statement.
Report ==
    /\ pc = "report"
    /\ out' = out \o [ i \in 1..Len(results) |-> SummaryRow(results[i]) ] \o << Text("Done") >>
    /\ ret' = PyNone
    /\ pc' = "returned"
    /\ UNCHANGED << error, args, helpers, circleci_config, jobs, images, fs, results,
                    warmup, tasks, now, calls, opened, pool_out >>

\* ----------------------------------------------------------- specifications

CollectRun == Collect(RunConfigs)

Next ==
    \/ RerenderSkip \/ Rerender
    \/ CollectRun \/ CollectRaises
    \/ Filter \/ NoJobs \/ WillBuild
    \/ PullStart \/ PullLaunchFails \/ PullExit
    \/ EnsureArtefacts
    \/ WarmupSkip \/ WarmupStart \/ WarmupRaises \/ WarmupFinish
    \/ PoolMap
    \/ \E w \in 1..MaxThreads : PoolJobStart(w) \/ PoolJobRaises(w)
    \/ \E j \in 1..MaxJobs : PoolJobFinish(j)
    \/ MapReturn
    \/ Report

\* One call of run_linux_local.
Spec == Init /\ [][Next]_vars

\* One call of run_linux_local in which every thread that can take a step
\* eventually takes one and every external process eventually exits.
Fairness == WF_vars(Next)

SpecFair == Spec /\ Fairness

\* The filter of run_linux_local on every extracted job list and every
\* filter: a call with no_rerender, followed up to the filtered list.
CollectAll == Collect(AllConfigs)

InitFilter ==
    /\ HelpersIdle
    /\ InitLocals
    /\ no_rerender = TRUE
    /\ no_docker_pull = TRUE
    /\ n_threads = 1
    /\ safe = TRUE
    /\ only \in AllOnly
    /\ fs = [ artefacts |-> "absent", src_cache |-> "absent", logs |-> "absent" ]

NextFilter == RerenderSkip \/ CollectAll \/ Filter

SpecFilter == InitFilter /\ [][NextFilter]_vars

\* ------------------------------------- _ensure_writable_dir, thread by thread

\* The number of threads that call _ensure_writable_dir on one path.
MaxCallers == 3

\* A thread about to evaluate line 23; a thread back from the call; a thread
\* the call raised out of, with the exception.
Caller(at) == [ at |-> at, raised |-> "none" ]
CallerRaised(what) == [ at |-> "raised", raised |-> what ]

\* The thread c moves to the place at, or the call raises what.
Goto(c, at) == callers' = [ callers EXCEPT ![c] = Caller(at) ]
Throw(c, what) == callers' = [ callers EXCEPT ![c] = CallerRaised(what) ]

\* if op.exists(path): check_path(path) / else: try: os.makedirs(path)
EnsureExists(c) ==
    /\ c \in 1..Len(callers)
    /\ callers[c].at = "exists"
    /\ IF Exists(target.is) THEN Goto(c, "isdir") ELSE Goto(c, "makedirs")
    /\ UNCHANGED << run, target, environ, job_env >>

\* check_path: if not op.isdir(path): raise Exception(...)
EnsureIsDir(c) ==
    /\ c \in 1..Len(callers)
    /\ callers[c].at = "isdir"
    /\ IF ~IsDir(target.is) THEN Throw(c, "not a directory") ELSE Goto(c, "access")
    /\ UNCHANGED << run, target, environ, job_env >>

\* (A check_path without its second test.)
EnsureAccessSkipped(c) ==
    /\ c \in 1..Len(callers)
    /\ callers[c].at = "access"
    /\ Goto(c, "returned")
    /\ UNCHANGED << run, target, environ, job_env >>

\* check_path: if not os.access(path, os.W_OK): raise Exception(...);
\* then return path
EnsureAccess(c) ==
    /\ c \in 1..Len(callers)
    /\ callers[c].at = "access"
    /\ IF ~Writable(target.is) THEN Throw(c, "not writable") ELSE Goto(c, "returned")
    /\ UNCHANGED << run, target, environ, job_env >>

\* try: os.makedirs(path), then return path / except Exception:
EnsureMakedirs(c) ==
    /\ c \in 1..Len(callers)
    /\ callers[c].at = "makedirs"
    /\ IF MakedirsRaises(target.is)
       THEN Goto(c, "except") /\ UNCHANGED target
       ELSE Goto(c, "returned") /\ target' = [ target EXCEPT !.is = Makedirs(@) ]
    /\ UNCHANGED << run, environ, job_env >>

\* (A handler that raised again whatever the path had become.)
EnsureExceptReraises(c) ==
    /\ c \in 1..Len(callers)
    /\ callers[c].at = "except"
    /\ Throw(c, "makedirs")
    /\ UNCHANGED << run, target, environ, job_env >>

\* except Exception: if op.exists(path): check_path(path) / else: raise
EnsureExcept(c) ==
    /\ c \in 1..Len(callers)
    /\ callers[c].at = "except"
    /\ IF Exists(target.is) THEN Goto(c, "isdir") ELSE Throw(c, "makedirs")
    /\ UNCHANGED << run, target, environ, job_env >>

\* Some threads call _ensure_writable_dir with the same arguments at once,
\* on a path in any state.
InitEnsure ==
    /\ InitLocals
    /\ no_rerender = TRUE
    /\ no_docker_pull = TRUE
    /\ n_threads = 1
    /\ safe = TRUE
    /\ only = EmptyOnly
    /\ fs = [ artefacts |-> "absent", src_cache |-> "absent", logs |-> "absent" ]
    /\ \E p \in PathStates : target = [ was |-> p, is |-> p ]
    /\ \E n \in 1..MaxCallers : callers = [ c \in 1..n |-> Caller("exists") ]
    /\ environ = << >>
    /\ job_env = [ pc |-> "idle" ]

NextEnsure ==
    \/ \E c \in 1..MaxCallers : EnsureExists(c)
    \/ \E c \in 1..MaxCallers : EnsureIsDir(c)
    \/ \E c \in 1..MaxCallers : EnsureAccess(c)
    \/ \E c \in 1..MaxCallers : EnsureMakedirs(c)
    \/ \E c \in 1..MaxCallers : EnsureExcept(c)

SpecEnsure == InitEnsure /\ [][NextEnsure]_vars

\* ------------------------------------- the environment of one build script

\* The length of the envvars of a job.
MaxEnv == 2

EnvKeys == { "A", "B" }
EnvValues == { "1", "2" }

\* The environments os.environ may be, and the envvars of a job.
Environs == UNION { [ S -> EnvValues ] : S \in SUBSET EnvKeys }
EnvVars == SeqsOver(EnvKeys \X EnvValues, MaxEnv)

\* (An assignment that kept the value of a key already set.)
SetDefault(e, k, v) ==
    [ x \in DOMAIN e \cup { k } |-> IF x \in DOMAIN e THEN e[x] ELSE v ]

\* env[k] = v
SetItem(e, k, v) ==
    [ x \in DOMAIN e \cup { k } |-> IF x = k THEN v ELSE e[x] ]

\* env = os.environ.copy()
EnvCopy ==
    /\ job_env.pc = "copy"
    /\ job_env' = [ pc |-> "for", envvars |-> job_env.envvars, i |-> 1, env |-> environ ]
    /\ UNCHANGED << run, target, callers, environ >>

\* for k, v in job.envvars: env[k] = v
EnvSet ==
    /\ job_env.pc = "for"
    /\ job_env.i <= Len(job_env.envvars)
    /\ LET kv == job_env.envvars[job_env.i]
       IN job_env' = [ job_env EXCEPT !.env = SetItem(@, kv[1], kv[2]), !.i = @ + 1 ]
    /\ UNCHANGED << run, target, callers, environ >>

\* call(..., env=env, ...): the build script gets env.
EnvCall ==
    /\ job_env.pc = "for"
    /\ job_env.i > Len(job_env.envvars)
    /\ job_env' = [ pc |-> "call", envvars |-> job_env.envvars, env |-> job_env.env ]
    /\ UNCHANGED << run, target, callers, environ >>

\* _run_one_linux_job on a job with any envvars, in any environment.
InitOverlay ==
    /\ InitLocals
    /\ no_rerender = TRUE
    /\ no_docker_pull = TRUE
    /\ n_threads = 1
    /\ safe = TRUE
    /\ only = EmptyOnly
    /\ fs = [ artefacts |-> "absent", src_cache |-> "absent", logs |-> "absent" ]
    /\ target = [ was |-> "dir", is |-> "dir" ]
    /\ callers = << >>
    /\ environ \in Environs
    /\ \E e \in EnvVars : job_env = [ pc |-> "copy", envvars |-> e ]

NextOverlay == EnvCopy \/ EnvSet \/ EnvCall

SpecOverlay == InitOverlay /\ [][NextOverlay]_vars

\* ------------------------------------------------------------- properties

\* The positions in calls of the commands of one kind, and of those among
\* them that are running.
CallsOf(cmd) == { i \in 1..Len(calls) : calls[i].cmd = cmd }
RunningCalls(cmd) == { i \in CallsOf(cmd) : calls[i].st = "running" }
ExitedCalls(cmd) == { i \in CallsOf(cmd) : calls[i].st = "exited" }

\* The tasks of the pool that a thread has taken, and those running.
TakenTasks == { j \in 1..Len(tasks) : tasks[j].st # "queued" }
RunningTasks == { j \in 1..Len(tasks) : tasks[j].st = "running" }

\* The coordinating thread is past the filter, so jobs is the filtered list.
Filtered ==
    /\ pc \notin { "rerender", "collect", "filter" }
    /\ error \notin { "rerender", "collect" }

\* C1: when the filtered job list is not empty and safe is true or src_cache
\* is absent, the first job is run to its end by the coordinating thread
\* before the pool starts: no task of the pool exists, is running or is done,
\* and no second build runs, while the warm-up job has not finished; once the
\* pool runs, the warm-up result is the first result.
C1_WarmupBeforePool ==
    (Filtered /\ jobs # << >> /\ (safe \/ fs.src_cache = "absent")) =>
        /\ warmup.st # "done" =>
             /\ tasks = << >>
             /\ Cardinality(RunningCalls("build")) <= 1
             /\ results = << >>
        /\ TakenTasks # {} =>
             /\ warmup.st = "done"
             /\ calls[warmup.call].st = "exited"
             /\ \A j \in TakenTasks : tasks[j].st = "raised" \/ tasks[j].call > warmup.call
             /\ Len(results) >= 1
             /\ results[1].job = jobs[1]

C1_Witness ==
    /\ ~safe
    /\ fs.src_cache = "absent"
    /\ Len(jobs) >= 2
    /\ warmup.st = "done"
    /\ RunningTasks # {}

\* C2: in the pool phase the number of jobs that run at the same time never
\* exceeds n_threads, counted on the tasks and on the build scripts alive,
\* and no thread of the pool runs two jobs at once.
C2_PoolBounded ==
    /\ Cardinality(RunningTasks) <= n_threads
    /\ tasks # << >> => Cardinality(RunningCalls("build")) <= n_threads
    /\ \A i, j \in RunningTasks : i # j => tasks[i].w # tasks[j].w
    /\ \A j \in RunningTasks : tasks[j].w \in 1..n_threads

C2_Witness ==
    /\ n_threads = 2
    /\ Cardinality(RunningTasks) = 2
    /\ \E j \in 1..Len(tasks) : tasks[j].st = "queued"

\* C3: a run that reaches the report with a non-empty filtered list J holds
\* |J|+1 results when the warm-up ran (safe, or src_cache absent): the first
\* is the warm-up result of J[0], J[0] was built twice and has two results,
\* every other job has one; it holds |J| results, one per job, when the
\* warm-up did not run.
ResultsOf(j) == { i \in 1..Len(results) : results[i].job = jobs[j] }
BuildsOf(j) == { i \in ExitedCalls("build") : calls[i].arg = jobs[j].name }

C3_ResultCount ==
    (pc \in { "report", "returned" } /\ jobs # << >>) =>
        IF safe \/ fs.src_cache = "absent"
        THEN /\ Len(results) = Len(jobs) + 1
             /\ warmup.st = "done"
             /\ results[1].job = jobs[1]
             /\ results[1].log_file = warmup.log_file
             /\ results[1].retcode = calls[warmup.call].rc
             /\ Cardinality(ResultsOf(1)) = 2
             /\ Cardinality(BuildsOf(1)) = 2
             /\ \A j \in 2..Len(jobs) :
                    Cardinality(ResultsOf(j)) = 1 /\ Cardinality(BuildsOf(j)) = 1
        ELSE /\ Len(results) = Len(jobs)
             /\ warmup.st = "none"
             /\ \A j \in 1..Len(jobs) :
                    Cardinality(ResultsOf(j)) = 1 /\ Cardinality(BuildsOf(j)) = 1

C3_Witness ==
    /\ pc = "returned"
    /\ Len(jobs) >= 2
    /\ ~safe
    /\ fs.src_cache = "absent"
    /\ Len(results) = Len(jobs) + 1

\* C4: with no_docker_pull false every (executable, image) pair of the
\* filtered jobs is pulled exactly once, however many jobs share it; a pull
\* is launched only when every earlier one has exited, in the sorted order of
\* the pairs; with no_docker_pull true nothing is pulled.
Pulls == SelectSeq(calls, LAMBDA c : c.cmd = "pull")
PulledPair(c) == << c.exe, c.arg >>
JobPairs == { << jobs[i].docker_executable, jobs[i].docker_image >> : i \in 1..Len(jobs) }

C4_PullOnce ==
    /\ no_docker_pull => Pulls = << >>
    /\ Cardinality(RunningCalls("pull")) <= 1
    /\ \A i \in 1..Len(Pulls) :
        /\ PulledPair(Pulls[i]) \in JobPairs
        /\ i < Len(Pulls) => Pulls[i].st = "exited"
        /\ \A j \in (i + 1)..Len(Pulls) : PairLess(PulledPair(Pulls[i]), PulledPair(Pulls[j]))
    /\ (~no_docker_pull /\ jobs # << >>
          /\ pc \in { "warmup", "warming", "pool", "map", "report", "returned" }) =>
        \A p \in JobPairs :
            Cardinality({ i \in 1..Len(Pulls) : PulledPair(Pulls[i]) = p }) = 1

C4_Witness ==
    /\ ~no_docker_pull
    /\ pc = "warmup"
    /\ Len(jobs) >= 2
    /\ Len(Pulls) = 1
    /\ Pulls[1].st = "exited"

\* C5: when a pull exits with a non-zero code the run is over, raised by
\* that pull: the pull is the last command the run launches, no build script
\* was launched, no job was started by the coordinating thread or by the
\* pool, and no result is recorded.
C5_PullFailureAborts ==
    \A i \in CallsOf("pull") :
        (calls[i].st = "exited" /\ calls[i].rc # 0) =>
            /\ pc = "raised"
            /\ error = "pull"
            /\ i = Len(calls)
            /\ CallsOf("build") = {}
            /\ warmup.st = "none"
            /\ tasks = << >>
            /\ results = << >>
            /\ ret = Pending
            /\ opened = EmptyBag

C5_Witness ==
    /\ error = "pull"
    /\ Len(jobs) >= 2
    /\ calls[Len(calls)].cmd = "pull"
    /\ calls[Len(calls)].rc = 1

\* C6: when the filtered job list is empty the run goes straight to its
\* return, with the empty list as its result and nothing raised; nothing is
\* pulled, no job is run by the coordinating thread or by the pool, and no
\* step of the run up to there changes the file system (the artefact
\* directory is not created).
FilteredEmpty == Filtered /\ jobs = << >>

C6_EmptyRun ==
    /\ [](FilteredEmpty =>
            /\ pc \in { "anything", "returned" }
            /\ error = "none"
            /\ CallsOf("pull") = {}
            /\ CallsOf("build") = {}
            /\ warmup.st = "none"
            /\ tasks = << >>
            /\ results = << >>
            /\ opened = EmptyBag
            /\ pc = "returned" => ret = PyList(<< >>))
    /\ [][(pc' \in { "rerender", "collect", "filter" } \/ FilteredEmpty') => fs' = fs]_vars

C6_Witness ==
    /\ pc = "returned"
    /\ ret = PyList(<< >>)
    /\ circleci_config # << >>
    /\ Truthy(only)
    /\ jobs = << >>
    /\ fs.artefacts = "absent"

\* C7: the filtered list is a sub-list of the extracted list in the same
\* order; it is the extracted list when only is empty; with a non-empty only
\* the job at position i is kept exactly when its name, or the string of i,
\* or the int i is in only.
PositionIn(js, job) == CHOOSE i \in 1..Len(js) : js[i] = job

FilterPost(before, after, o) ==
    /\ \A k \in 1..Len(after) : after[k] \in Range(before)
    /\ \A k, l \in 1..Len(after) :
        k < l => PositionIn(before, after[k]) < PositionIn(before, after[l])
    /\ ~Truthy(o) => after = before
    /\ Truthy(o) =>
        \A i \in 0..(Len(before) - 1) :
            before[i + 1] \in Range(after)
                <=> \/ before[i + 1].name \in o.strs
                    \/ Str(i) \in o.strs
                    \/ i \in o.ints

C7_FilterSublist == [][pc = "filter" /\ pc' # "filter" => FilterPost(jobs, jobs', only)]_vars

C7_Witness ==
    /\ pc = "anything"
    /\ Len(circleci_config) = 3
    /\ Len(jobs) = 2
    /\ only.ints = { 2 }
    /\ Cardinality(only.strs) = 1

\* C8: on an extracted list none of whose names is the decimal string of one
\* of its positions, the filter that holds only the name of the job at
\* position i, the one that holds only the string of i, and the one that
\* holds only the int i each select that job and no other.
NoPositionNames(js) ==
    \A i \in 1..Len(js) : \A k \in 0..(Len(js) - 1) : js[i].name # Str(k)

C8_IndexOrName ==
    [][(pc = "filter" /\ pc' # "filter" /\ NoPositionNames(jobs)) =>
          \A i \in 0..(Len(jobs) - 1) :
              only \in { [ strs |-> { jobs[i + 1].name }, ints |-> {} ],
                         [ strs |-> { Str(i) }, ints |-> {} ],
                         [ strs |-> {}, ints |-> { i } ] }
                  => jobs' = << jobs[i + 1] >>]_vars

C8_Witness ==
    /\ pc = "anything"
    /\ Len(circleci_config) = 3
    /\ \A i \in 1..3 : circleci_config[i].name \notin { "0", "1", "2" }
    /\ only = [ strs |-> { "1" }, ints |-> {} ]
    /\ Len(jobs) = 1
    /\ jobs[1].name = "linux_64"

\* C9: the exit code of a build script never raises out of the run: each
\* build script that has exited left one status line of its job, FAIL
\* exactly when its exit code is not zero; and a run that returns after its
\* pulls, its artefact directory and every launch succeeded has executed
\* every filtered job and printed one summary row per execution, with the
\* exit code of that execution.
StatusLines(n, word) ==
    Cardinality({ i \in 1..Len(out) :
                    /\ out[i].line = "JOB"
                    /\ out[i].name = n
                    /\ out[i].status = word })
    + CopiesIn([ line |-> "JOB", name |-> n, status |-> word ], pool_out)

SummaryRows == SelectSeq(out, LAMBDA l : l.line = "summary")

ExitedBuilds(n, failed) ==
    { i \in ExitedCalls("build") : calls[i].arg = n /\ ((calls[i].rc # 0) <=> failed) }

C9_ExitCodeNeverAborts ==
    /\ error # "build_exit"
    /\ Filtered =>
        \A j \in 1..Len(jobs) :
            /\ StatusLines(jobs[j].name, "FAIL") = Cardinality(ExitedBuilds(jobs[j].name, TRUE))
            /\ StatusLines(jobs[j].name, "OK") = Cardinality(ExitedBuilds(jobs[j].name, FALSE))
    /\ (pc = "returned" /\ jobs # << >>) =>
        /\ error = "none"
        /\ RunningCalls("build") = {}
        /\ \A j \in 1..Len(jobs) : BuildsOf(j) # {}
        /\ Len(SummaryRows) = Cardinality(ExitedCalls("build"))
        /\ Len(SummaryRows) = Len(results)
        /\ \A k \in 1..Len(results) :
            /\ SummaryRows[k].name = results[k].job.name
            /\ SummaryRows[k].logfile = results[k].log_file
            /\ (SummaryRows[k].retcode = "OK") <=> (results[k].retcode = 0)
            /\ \E i \in ExitedCalls("build") :
                /\ calls[i].arg = results[k].job.name
                /\ calls[i].rc = results[k].retcode

C9_Witness ==
    /\ pc = "returned"
    /\ Len(jobs) >= 2
    /\ \E k \in 1..Len(results) : results[k].retcode # 0 /\ results[k].job = jobs[1]
    /\ \E k \in 1..Len(results) : results[k].retcode = 0 /\ results[k].job = jobs[2]

\* C10: a build script that cannot be launched does not raise out of the
\* run: the job gets a failed result and the run goes on.
C10_LaunchFailureNotFatal ==
    \A i \in CallsOf("build") :
        calls[i].st = "OSError" =>
            /\ pc # "raised"
            /\ error = "none"

\* The warning of the re-render step, and whether it has been printed.
RerenderWarning ==
    Text("WARNING: could not rerender the recipe, is \"conda-smithy\" available?")
Warned == \E i \in 1..Len(out) : out[i] = RerenderWarning

\* The re-render command is not invoked with no_rerender; without it, it is
\* the first command of the run, invoked once, before anything is extracted.
RerenderInvocation ==
    /\ no_rerender => CallsOf("rerender") = {}
    /\ pc = "rerender" => calls = << >> /\ circleci_config = << >> /\ jobs = << >>
    /\ (~no_rerender /\ pc # "rerender") => CallsOf("rerender") = { 1 }

C12_ReturnsResults ==
    (pc = "returned" /\ jobs # << >>) =>
        ret = PyList(results)

\* C13: _collect_linux_jobs yields one descriptor per declared job, in the
\* order in which the configuration declares the jobs.
C13_DeclaredOrder ==
    pc = "filter" =>
        /\ Len(jobs) = Len(circleci_config)
        /\ \A i \in 1..Len(jobs) : jobs[i].name = circleci_config[i].name

\* C16: the aggregated results and the summary rows come in one order,
\* whatever the order in which the jobs of the pool complete: each task of
\* the pool holds the result of the job at its position, however many other
\* tasks are done or still running, and at the report the results are the
\* warm-up result (when the warm-up ran) followed by the result of each
\* filtered job in the order of the filtered list, with one summary row per
\* result in the same order.
C16_ResultOrder ==
    /\ \A j \in 1..Len(tasks) :
        tasks[j].st = "done" => tasks[j].result.job = jobs[j]
    /\ (pc \in { "report", "returned" } /\ jobs # << >>) =>
        LET off == IF warmup.st = "done" THEN 1 ELSE 0
        IN /\ Len(results) = off + Len(jobs)
           /\ off = 1 =>
                /\ results[1].job = jobs[1]
                /\ results[1].log_file = warmup.log_file
           /\ \A j \in 1..Len(jobs) :
                /\ results[off + j] = tasks[j].result
                /\ results[off + j].job = jobs[j]
    /\ (pc = "returned" /\ jobs # << >>) =>
        SummaryRows = [ k \in 1..Len(results) |-> SummaryRow(results[k]) ]

\* A later job of the list is done while an earlier one still runs.
C16_Witness ==
    /\ pc = "map"
    /\ n_threads = 2
    /\ Len(tasks) >= 3
    /\ tasks[1].st = "running"
    /\ tasks[2].st = "done"
    /\ tasks[3].st = "done"
    /\ warmup.st = "done"

\* C17: no two job executions of one run write to the same log file: every
\* execution that opens a log file (the warm-up, each execution of the pool,
\* the second execution of the first job among them) opens a path of its
\* own, made of the job name and the timestamp, and the results name
\* pairwise different log files.
C17_DistinctLogs ==
    /\ \A f \in BagToSet(opened) : CopiesIn(f, opened) = 1
    /\ BagCardinality(opened) = Cardinality(CallsOf("build"))
    /\ \A f \in BagToSet(opened) :
        \E j \in 1..Len(jobs) : f.name = jobs[j].name /\ f.timestamp \in 0..now
    /\ \A i, k \in 1..Len(results) :
        i # k => results[i].log_file # results[k].log_file
    /\ \A i \in 1..Len(results) : results[i].log_file \in BagToSet(opened)

C17_Witness ==
    /\ pc = "returned"
    /\ Len(results) >= 3
    /\ results[1].job = results[2].job
    /\ results[1].log_file.timestamp # results[2].log_file.timestamp
    /\ results[2].job # results[3].job
    /\ results[2].log_file.timestamp = results[3].log_file.timestamp

\* C19: when the artefact root cannot be made a writable directory the run
\* aborts: the failure is raised once the image pulls are over and before
\* any job, so no build script is launched, no log file is opened, neither
\* the warm-up nor a task of the pool exists and no result is recorded; and
\* a job is executed only when the artefact root is a writable directory.
C19_ArtefactFailureFatal ==
    /\ error = "artefacts_dir" =>
        /\ pc = "raised"
        /\ fs.artefacts \in { "blocked", "file", "dir_ro" }
        /\ jobs # << >>
        /\ images = << >>
        /\ RunningCalls("pull") = {}
        /\ ~no_docker_pull =>
            \A p \in JobPairs :
                \E i \in ExitedCalls("pull") : PulledPair(calls[i]) = p /\ calls[i].rc = 0
        /\ CallsOf("build") = {}
        /\ opened = EmptyBag
        /\ warmup.st = "none"
        /\ tasks = << >>
        /\ results = << >>
        /\ ret = Pending
    /\ (pc \in { "warmup", "warming", "pool", "map", "report" } \/ CallsOf("build") # {}) =>
        /\ fs.artefacts = "dir"
        /\ error # "artefacts_dir"

C19_Witness ==
    /\ error = "artefacts_dir"
    /\ fs.artefacts = "dir_ro"
    /\ ~no_docker_pull
    /\ ExitedCalls("pull") # {}

\* The phase of the run the coordinating thread is in: 1 rerender,
\* 2 extraction, 3 filtering, 4 pulls, 6 warm-up, 7 pool, 8 report, 9 the
\* call has returned, 10 the call has raised.  The artefact-directory setup,
\* phase 5, is the one step from the pulls to the warm-up.
PhaseRank(p) ==
    CASE p = "rerender" -> 1
      [] p = "collect" -> 2
      [] p \in { "filter", "anything" } -> 3
      [] p \in { "pull", "pulling" } -> 4
      [] p \in { "warmup", "warming" } -> 6
      [] p \in { "pool", "map" } -> 7
      [] p = "report" -> 8
      [] p = "returned" -> 9
      [] p = "raised" -> 10

\* The run never goes back to a phase it has left, and leaves a phase only
\* for the next one, for the return of an empty run or for an exception.
PhaseOrder ==
    [][ /\ PhaseRank(pc') >= PhaseRank(pc)
        /\ PhaseRank(pc') > PhaseRank(pc) =>
            \/ pc' = "raised"
            \/ pc = "anything" /\ pc' = "returned" /\ jobs = << >>
            \/ PhaseRank(pc') = PhaseRank(pc) + 1
            \/ PhaseRank(pc) = 4 /\ PhaseRank(pc') = 6 ]_vars

\* The report is reached only when every build script that was launched
\* has exited: a build that never exits keeps the run from the report.
ReportAfterBuilds ==
    [](pc \in { "report", "returned" } =>
        /\ RunningCalls("build") = {}
        /\ warmup.st \in { "none", "done" }
        /\ \A j \in 1..Len(tasks) : tasks[j].st = "done")

\* C20 (as stated): with fair threads and external processes that all exit,
\* every run reaches the end of the report, through its phases in order,
\* and a build that never exits keeps the run from the report.
C20_AlwaysReported ==
    /\ <>(pc = "returned")
    /\ PhaseOrder
    /\ ReportAfterBuilds

\* C20: with fair threads and external processes that all exit, every run
\* comes to an end: it reaches the end of the report, or returns early on an
\* empty job list, or raises (a failed re-render, an unreadable
\* configuration, a failed pull, an unusable artefact or log directory, a
\* build script that cannot be launched); it goes through its phases in
\* order without going back; and a build that never exits keeps the run
\* from the report.
C20_Terminates ==
    /\ <>(pc \in { "returned", "raised" })
    /\ PhaseOrder
    /\ ReportAfterBuilds

C20_Witness ==
    /\ pc = "returned"
    /\ ~no_rerender
    /\ ~no_docker_pull
    /\ ExitedCalls("rerender") # {}
    /\ ExitedCalls("pull") # {}
    /\ warmup.st = "done"
    /\ Len(tasks) >= 2
    /\ Len(results) = Len(tasks) + 1
    /\ Len(SummaryRows) = Len(results)

\* The threads back from _ensure_writable_dir, and those it raised out of.
ReturnedCallers == { c \in 1..Len(callers) : callers[c].at = "returned" }
RaisedCallers == { c \in 1..Len(callers) : callers[c].at = "raised" }

\* C14: when two or more threads call _ensure_writable_dir at once with the
\* same arguments on a path that does not exist and can be created, then
\* however their existence checks and creation attempts interleave, no
\* thread raises, and every thread that returns finds the path a writable
\* directory.
C14_ConcurrentEnsure ==
    (Len(callers) >= 2 /\ target.was = "absent") =>
        /\ RaisedCallers = {}
        /\ ReturnedCallers # {} => target.is = "dir"
        /\ \A c \in 1..Len(callers) : callers[c].at \in { "isdir", "access" } => target.is = "dir"

\* Two threads lost the race for the creation and came back through the
\* handler, a third one won it.
C14_Witness ==
    /\ Len(callers) = 3
    /\ target.was = "absent"
    /\ ReturnedCallers = { 1, 2 }
    /\ callers[3].at = "except"

\* What became of the call of thread c, when it is over.
Finished(c) == callers[c].at \in { "returned", "raised" }

\* C18: _ensure_writable_dir raises, and leaves the path as it was, when the
\* path is a file (not a directory) or a directory that is not writable;
\* when the path does not exist and cannot be created it raises the failure
\* of the creation, the path still not existing; whenever it returns, the
\* path exists, is a directory and is writable; and the only change it ever
\* makes is the creation of a path that did not exist.  Each call ends as
\* the call run alone on the path ends.
C18_EnsureOutcome ==
    /\ [](\A c \in 1..Len(callers) :
            /\ callers[c].at = "returned" =>
                /\ Exists(target.is)
                /\ IsDir(target.is)
                /\ Writable(target.is)
            /\ callers[c].at = "raised" =>
                /\ target.is = target.was
                /\ callers[c].raised = "not a directory" => target.is = "file"
                /\ callers[c].raised = "not writable" => target.is = "dir_ro"
                /\ callers[c].raised = "makedirs" => ~Exists(target.is)
            /\ Finished(c) =>
                /\ target.was = "file" => callers[c].raised = "not a directory"
                /\ target.was = "dir_ro" => callers[c].raised = "not writable"
                /\ target.was = "blocked" => callers[c].raised = "makedirs"
                /\ (callers[c].at = "raised") <=> EnsureWritableDir(target.was).raises
                /\ target.is = EnsureWritableDir(target.was).path)
    /\ [][target' # target =>
            /\ target.is = "absent"
            /\ target'.is = "dir"
            /\ target'.was = target.was]_vars

C18_Witness ==
    /\ Len(callers) = 2
    /\ target.was = "blocked"
    /\ target.is = "blocked"
    /\ callers[1] = CallerRaised("makedirs")
    /\ callers[2] = CallerRaised("makedirs")

\* The keys the pairs of s name, and the last pair of s that names k.
KeysOf(s) == { s[i][1] : i \in 1..Len(s) }
LastOf(k, s) == CHOOSE i \in 1..Len(s) : s[i][1] = k /\ \A j \in (i + 1)..Len(s) : s[j][1] # k

\* The environment base overlaid with the pairs of s in their order.
OverlayOf(base, s) ==
    [ k \in DOMAIN base \cup KeysOf(s) |->
        IF k \in KeysOf(s) THEN s[LastOf(k, s)][2] ELSE base[k] ]

\* C15: the environment the build script gets is os.environ overlaid with
\* the pairs of job.envvars in their order: a key that envvars names has the
\* value of the last pair that names it, any other key has its value in
\* os.environ, and there is no other key; after each turn of the loop env is
\* os.environ overlaid with the pairs seen so far.
C15_Overlay ==
    /\ job_env.pc = "for" =>
        job_env.env = OverlayOf(environ, SubSeq(job_env.envvars, 1, job_env.i - 1))
    /\ job_env.pc = "call" =>
        /\ job_env.env = OverlayOf(environ, job_env.envvars)
        /\ DOMAIN job_env.env = DOMAIN environ \cup KeysOf(job_env.envvars)
        /\ \A k \in DOMAIN environ \ KeysOf(job_env.envvars) : job_env.env[k] = environ[k]
        /\ \A i \in 1..Len(job_env.envvars) :
            (\A j \in (i + 1)..Len(job_env.envvars) : job_env.envvars[j][1] # job_env.envvars[i][1])
                => job_env.env[job_env.envvars[i][1]] = job_env.envvars[i][2]

C15_Witness ==
    /\ job_env.pc = "call"
    /\ job_env.envvars = << << "A", "1" >>, << "A", "2" >> >>
    /\ environ = ("A" :> "1") @@ ("B" :> "1")
    /\ job_env.env = ("A" :> "2") @@ ("B" :> "1")

====
